---- MODULE Spec2Model ----
(***************************************************************************)
(* TSA travel numbers ETL: the yearly driver (main.py), the generic        *)
(* extract/transform/load contract (utils/base_classes.py), the warehouse  *)
(* connector (utils/snowflake_connector.py) and the cached read of the     *)
(* dashboard (webapp.py), as one state machine over a shared warehouse.    *)
(*                                                                         *)
(* In-memory tables are records [cols, rows]: cols is the ordered column   *)
(* list, rows a sequence of functions from column name to cell.  Dates are *)
(* text "mm/dd/yyyy" on the page and <<y, m, d>> once parsed; NaT (and SQL *)
(* NULL) is the empty tuple.                                               *)
(***************************************************************************)
EXTENDS Integers, Sequences, FiniteSets, TLC

VARIABLES
    process,         \* the program this process runs: "main" or "webapp"
    now,             \* datetime.now().year, the wall clock's calendar year
    base_variables,  \* BaseVariables: the run context shared by every user
    constructed,     \* history: base_variables as it was constructed
    warehouse,       \* per database suffix: what exists, and the table's rows
    mainPc,          \* main(): "start", "loop", "etl", "done", "raised"
    current_year,    \* main()'s local current_year
    loopYear,        \* main()'s loop variable year
    calls,           \* history: one record per TSAETL constructed and run
    mainErr,         \* the error that left main(), or NoError
    etl,             \* the TSAETL instance being run: url, metadata, df, phase;
                     \* history: the phases begun, and (until load is called) the
                     \* page table extract returned and the year transform ran in
    load,            \* the load_dataframe_to_snowflake call in progress
    render,          \* the dashboard render / load_data call in progress
    cache,           \* st.cache_data entries of load_data
    renders,         \* history: outcome of every finished load_data call
    today,           \* datetime.now() as <<year, month, day>>, where the start of
                     \* the process is followed by the day (NaT where it is not)
    parsed_args,     \* parse_args(): its position, the parser's choices and
                     \* default for --start_year, what the command line gives
    dash_df,         \* webapp.main's df, the table handed to extract_metadata
    meta_df          \* webapp.main's meta_df, what extract_metadata returned

startVars == <<today, parsed_args>>
metaVars == <<dash_df, meta_df>>

vars == <<process, now, base_variables, constructed, warehouse, mainPc, current_year,
          loopYear, calls, mainErr, etl, load, render, cache, renders, startVars,
          metaVars>>

-----------------------------------------------------------------------------
(* Bounds of the model. *)

MaxYear == 2020      \* the clock never passes this year
MaxLen == 2          \* rows of a scraped page table
MaxRenders == 2      \* dashboard renders in one process
MaxStartYear == 2021 \* the last calendar year the process starts in
MaxMidnights == 1    \* midnights that pass while the process starts

(* Program constants. *)

FirstYear == 2019

SOURCE == "https://www.tsa.gov/travel/passenger-volumes"

Years == FirstYear..MaxYear

\* str(year)
YearNames == <<"2019", "2020", "2021", "2022", "2023", "2024", "2025", "2026">>
Str(y) == YearNames[y - 2018]

\* str.upper() on the environment names
Upper(s) == CASE s = "prod" -> "PROD" [] s = "uat" -> "UAT" [] OTHER -> s

NaT == <<>>
NoError == [kind |-> "none"]
None == [cols |-> <<>>, rows |-> <<>>, none |-> TRUE]

Table(cols, rows) == [cols |-> cols, rows |-> rows, none |-> FALSE]

Range(s) == {s[i] : i \in 1..Len(s)}

Last(s) == s[Len(s)]

-----------------------------------------------------------------------------
(* Config and the run context (utils/__init__.py, utils/base_classes.py). *)

Config ==
    [ACCOUNT |-> "acct", USER |-> "user", PASSWORD |-> "pw", WAREHOUSE |-> "wh",
     ROLE |-> "role", DATABASE |-> "TSA", SCHEMA |-> "PUBLIC", TABLE |-> "VOLUMES"]

Environments == {"prod", "uat"}

\* parse_args: sf_prefix from the environment
SfPrefix(environment) == IF environment = "prod" THEN "" ELSE "uat\\"

\* parse_args: the values --start_year accepts at a start in calendar year y
StartYearChoices(y) == FirstYear..y

BaseVariables(environment, start_year) ==
    [environment |-> environment,
     prefix      |-> SfPrefix(environment),
     year        |-> start_year,
     conn        |-> [account   |-> Config.ACCOUNT,
                      user      |-> Config.USER,
                      password  |-> Config.PASSWORD,
                      warehouse |-> Config.WAREHOUSE,
                      role      |-> Config.ROLE],
     database    |-> Config.DATABASE,
     schema      |-> Config.SCHEMA,
     table       |-> Config.TABLE]

SnowflakeConfig(database, schema, table, unique_keys) ==
    [database |-> database, schema |-> schema, table |-> table,
     unique_keys |-> unique_keys]

\* dict.update: the keys of d2 are added to, or overwrite, those of d1
DictUpdate(d1, d2) ==
    [k \in DOMAIN d1 \cup DOMAIN d2 |-> IF k \in DOMAIN d2 THEN d2[k] ELSE d1[k]]

-----------------------------------------------------------------------------
(* The page tables extract can return. *)

DateTexts == {"01/01/2022", "01/02/2022"}
NaN == "nan"
BadText == "n/a"

\* the (Date, number) cells of the rows a page table is made of: a date with a
\* number, the same date with a revised number, a missing date, an unparsable date
PageCells ==
    {<<"01/01/2022", 100>>, <<"01/01/2022", 200>>, <<NaN, 100>>, <<BadText, 100>>}

\* the column layouts of the first table of the page
Layouts ==
    {<<"Date", "Numbers">>, <<"Day", "Numbers">>}
        \cup {<<"Date", Str(y), "Extra">> : y \in Years}

\* one row of a page table with the given columns
PageRows(cols) ==
    {[c \in Range(cols) |->
        CASE c \in {"Date", "Day"} -> cell[1]
          [] c = "Extra" -> 999
          [] OTHER -> cell[2]] : cell \in PageCells}

\* the sequences of at most n different elements of S
SeqsUpTo(S, n) ==
    UNION {{f \in [1..k -> S] : \A i, j \in 1..k : i # j => f[i] # f[j]} : k \in 0..n}

\* a page table lists at most MaxLen rows, each once
PageTables == UNION {{Table(cols, rows) : rows \in SeqsUpTo(PageRows(cols), MaxLen)}
                      : cols \in Layouts}

-----------------------------------------------------------------------------
(* TSAETL (main.py). *)

Metadata(prefix) ==
    [country   |-> "US",
     frequency |-> "daily",
     series_id |-> <<prefix, "TSA\\passenger_volumes">>,
     source    |-> SOURCE,
     unit      |-> "number_of"]

MetadataKeys == <<"country", "frequency", "series_id", "source", "unit">>

\* TSAETL.__init__: the url, as path segments after the scheme
UrlAlwaysSuffixed(year, clock) == <<SOURCE, Str(year)>>
Url(year, clock) == IF year = clock THEN <<SOURCE>> ELSE <<SOURCE, Str(year)>>

\* pd.to_datetime(text, format="%m/%d/%Y").dt.date on one cell
Parses(text) == text \in DateTexts \cup {NaN}
ToDate(text) ==
    CASE text = "01/01/2022" -> <<2022, 1, 1>>
      [] text = "01/02/2022" -> <<2022, 1, 2>>
      [] OTHER -> NaT

\* str.upper() on the column names transform produces
UpperCol(c) ==
    CASE c = "travel_date" -> "TRAVEL_DATE"
      [] c = "value" -> "VALUE"
      [] c = "country" -> "COUNTRY"
      [] c = "frequency" -> "FREQUENCY"
      [] c = "series_id" -> "SERIES_ID"
      [] c = "source" -> "SOURCE"
      [] c = "unit" -> "UNIT"
      [] c = "Numbers" -> "NUMBERS"
      [] c = "Date" -> "DATE"
      [] c = "Day" -> "DAY"
      [] c = "Extra" -> "EXTRA"
      [] OTHER -> c

MapSeq(s, F(_)) == [i \in 1..Len(s) |-> F(s[i])]

\* df.loc[:, names]: the named columns, in the order given
Loc(df, names) ==
    Table(names, MapSeq(df.rows, LAMBDA r : [c \in Range(names) |-> r[c]]))

\* df.rename(columns=mapping): mapping is a function old name -> new name;
\* names it does not mention are kept
Rename(df, mapping) ==
    LET New(c) == IF c \in DOMAIN mapping THEN mapping[c] ELSE c
        Old(n) == CHOOSE c \in Range(df.cols) : New(c) = n
    IN Table(MapSeq(df.cols, New),
             MapSeq(df.rows,
                    LAMBDA r : [n \in {New(c) : c \in Range(df.cols)} |-> r[Old(n)]]))

\* df.assign(**metadata): new columns are appended in keyword order
Assign(df, keys, values) ==
    LET fresh == SelectSeq(keys, LAMBDA k : k \notin Range(df.cols))
    IN Table(df.cols \o fresh,
             MapSeq(df.rows,
                    LAMBDA r : [c \in Range(df.cols) \cup Range(keys) |->
                                   IF c \in Range(keys) THEN values[c] ELSE r[c]]))

\* df.columns = df.columns.str.upper()
UpperColumns(df) ==
    Table(MapSeq(df.cols, UpperCol),
          MapSeq(df.rows,
                 LAMBDA r : [n \in {UpperCol(c) : c \in Range(df.cols)} |->
                                r[CHOOSE c \in Range(df.cols) : UpperCol(c) = n]]))

\* TSAETL.transform raises: no Date column, an unparsable date, or (wider
\* shape) no column named after the current year
TransformRaises(df, clock) ==
    IF "Date" \notin Range(df.cols) THEN TRUE
    ELSE IF \E i \in 1..Len(df.rows) : ~Parses(df.rows[i]["Date"]) THEN TRUE
         ELSE Len(df.cols) > 2 /\ Str(clock) \notin Range(df.cols)

TransformError(df, clock) ==
    IF "Date" \notin Range(df.cols) THEN [kind |-> "KeyError"]
    ELSE IF \E i \in 1..Len(df.rows) : ~Parses(df.rows[i]["Date"])
         THEN [kind |-> "ValueError"]
         ELSE [kind |-> "KeyError"]

ParseDates(df) ==
    Table(df.cols,
          MapSeq(df.rows, LAMBDA r : [r EXCEPT !["Date"] = ToDate(r["Date"])]))

TransformKeepsAllColumns(df, clock, metadata) ==
    LET dated == ParseDates(df)
        named == Rename(dated, IF Len(dated.cols) > 2
                                 THEN [c \in {"Date", Str(clock)} |->
                                          IF c = "Date" THEN "travel_date" ELSE "value"]
                                 ELSE [c \in {"Date", "Numbers"} |->
                                          IF c = "Date" THEN "travel_date" ELSE "value"])
    IN UpperColumns(Assign(named, MetadataKeys, metadata))

\* TSAETL.transform on a table it does not raise on
Transform(df, clock, metadata) ==
    LET dated == ParseDates(df)
        named == IF Len(dated.cols) > 2
                 THEN Rename(Loc(dated, <<"Date", Str(clock)>>),
                             [c \in {"Date", Str(clock)} |->
                                 IF c = "Date" THEN "travel_date" ELSE "value"])
                 ELSE Rename(dated,
                             [c \in {"Date", "Numbers"} |->
                                 IF c = "Date" THEN "travel_date" ELSE "value"])
    IN UpperColumns(Assign(named, MetadataKeys, metadata))

-----------------------------------------------------------------------------
(* The warehouse and SnowflakeConnector (utils/snowflake_connector.py). *)

\* f"{database}_{environment.upper()}", as its two parts
DatabaseName(database, environment) == <<database, Upper(environment)>>

Databases == {DatabaseName(Config.DATABASE, e) : e \in Environments}

EmptyDatabase ==
    [database |-> FALSE, schema |-> FALSE, table |-> FALSE, cols |-> <<>>, rows |-> <<>>]

\* snowflake_create_table: CREATE TABLE IF NOT EXISTS with the columns of df
\* (an existing table is left as it is)
CreateTableIfNotExists(db, df) ==
    IF db.table THEN db ELSE [db EXCEPT !.table = TRUE, !.cols = df.cols]

\* SQL equality in the MERGE's ON clause: NULL equals nothing, itself included
SqlEq(a, b) == a # NaT /\ b # NaT /\ a = b

\* merge_condition: target."k" = source."k" AND ... over the unique keys
MergeCondition(target, source, unique_keys) ==
    \A i \in 1..Len(unique_keys) :
        SqlEq(target[unique_keys[i]], source[unique_keys[i]])

\* the source rows of the MERGE that match no target row
NotMatched(target, source, unique_keys) ==
    SelectSeq(source,
              LAMBDA s : ~\E i \in 1..Len(target) :
                              MergeCondition(target[i], s, unique_keys))

\* MERGE INTO target USING source ON ... WHEN NOT MATCHED THEN INSERT (columns)
MergeUpdatesMatched(target, source, unique_keys, columns) ==
    [i \in 1..Len(target) |->
        IF \E j \in 1..Len(source) : MergeCondition(target[i], source[j], unique_keys)
        THEN source[CHOOSE j \in 1..Len(source) :
                        MergeCondition(target[i], source[j], unique_keys)]
        ELSE target[i]]
      \o NotMatched(target, source, unique_keys)
Merge(target, source, unique_keys, columns) ==
    target \o MapSeq(NotMatched(target, source, unique_keys),
                     LAMBDA s : [c \in Range(columns) |-> s[c]])

\* the statements of load_dataframe_to_snowflake, in program order
LoadStepsMergeBeforeWrite ==
    <<"connect", "create_database", "use_database", "create_schema", "use_schema",
      "create_table", "create_staging", "merge", "write_pandas", "commit">>
LoadSteps ==
    <<"connect", "create_database", "use_database", "create_schema", "use_schema",
      "create_table", "create_staging", "write_pandas", "merge", "commit">>

IndexOf(s, x) == CHOOSE i \in 1..Len(s) : s[i] = x

\* the statement after step, or "finally" after the last one
AfterStep(step) ==
    LET i == IndexOf(LoadSteps, step)
    IN IF i < Len(LoadSteps) THEN LoadSteps[i + 1] ELSE "finally"

IdleLoad ==
    [pc |-> "idle", df |-> None, conf |-> SnowflakeConfig(<<>>, "", "", <<>>),
     ctx |-> "none", closes |-> 0, steps |-> <<>>, using |-> <<>>,
     staging |-> [exists |-> FALSE, rows |-> <<>>], success |-> "unset",
     exc |-> NoError, dest0 |-> <<>>, prev |-> None]

\* what the statement needs of the warehouse and of the session to run at all
StepRuns(step, db, l) ==
    CASE step = "use_database"   -> db.database
      [] step = "create_schema"  -> "database" \in Range(l.using)
      [] step = "use_schema"     -> db.schema /\ "database" \in Range(l.using)
      [] step = "create_table"   -> "schema" \in Range(l.using)
      [] step = "create_staging" -> db.table /\ "schema" \in Range(l.using)
      [] step = "write_pandas"   -> l.staging.exists
      [] step = "merge"          -> db.table /\ l.staging.exists
      [] OTHER -> TRUE

\* the statement's effect on the database
StepDatabase(step, db, l) ==
    CASE step = "create_database" -> [db EXCEPT !.database = TRUE]
      [] step = "create_schema"   -> [db EXCEPT !.schema = TRUE]
      [] step = "create_table"    -> CreateTableIfNotExists(db, l.df)
      [] step = "merge" ->
            [db EXCEPT !.rows = Merge(db.rows, l.staging.rows,
                                      l.conf.unique_keys, l.df.cols)]
      [] OTHER -> db

\* the statement's effect on the session (current database/schema, staging)
StepSession(step, l) ==
    CASE step = "connect"        -> [l EXCEPT !.ctx = "open"]
      [] step = "use_database"   -> [l EXCEPT !.using = <<"database">>]
      [] step = "use_schema"     -> [l EXCEPT !.using = <<"database", "schema">>]
      [] step = "create_staging" -> [l EXCEPT !.staging = [exists |-> TRUE, rows |-> <<>>]]
      [] step = "write_pandas"   ->
            [l EXCEPT !.staging.rows = l.staging.rows \o l.df.rows,
                      !.success = "true"]
      [] OTHER -> l

\* a statement of the load completes
LoadStep ==
    /\ load.pc \in Range(LoadSteps)
    /\ StepRuns(load.pc, warehouse[load.conf.database], load)
    /\ warehouse' = [warehouse EXCEPT ![load.conf.database] =
                        StepDatabase(load.pc, @, load)]
    /\ load' = [StepSession(load.pc, load) EXCEPT
                    !.steps = Append(load.steps, load.pc),
                    !.pc = AfterStep(load.pc)]
    /\ UNCHANGED <<startVars, metaVars,
                   process, now, base_variables, constructed, mainPc, current_year,
                   loopYear, calls, mainErr, etl, render, cache, renders>>

\* a statement of the load raises (connect raises before the try block)
LoadStepRaises ==
    /\ load.pc \in Range(LoadSteps)
    /\ load' = [load EXCEPT
                    !.exc = [kind |-> IF load.pc = "connect" THEN "DatabaseError"
                                      ELSE "ProgrammingError", at |-> load.pc],
                    !.pc = IF load.pc = "connect" THEN "raised" ELSE "finally"]
    /\ UNCHANGED <<startVars, metaVars,
                   process, now, base_variables, constructed, warehouse, mainPc,
                   current_year, loopYear, calls, mainErr, etl, render, cache, renders>>

\* write_pandas returns success = False: the RuntimeError of the load
LoadWriteUnsuccessful ==
    /\ load.pc = "write_pandas"
    /\ StepRuns(load.pc, warehouse[load.conf.database], load)
    /\ load' = [load EXCEPT
                    !.steps = Append(load.steps, load.pc),
                    !.success = "false",
                    !.exc = [kind |-> "RuntimeError",
                             at |-> "Failed to write DataFrame to the staging table."],
                    !.pc = "finally"]
    /\ UNCHANGED <<startVars, metaVars,
                   process, now, base_variables, constructed, warehouse, mainPc,
                   current_year, loopYear, calls, mainErr, etl, render, cache, renders>>

\* finally: ctx.close(), then the call returns or the error propagates
LoadFinallySkipsCloseOnError(l) ==
    IF l.exc = NoError
    THEN [l EXCEPT !.ctx = "closed", !.closes = @ + 1, !.pc = "returned"]
    ELSE [l EXCEPT !.pc = "raised"]
LoadFinally(l) ==
    [l EXCEPT !.ctx = "closed",
              !.closes = @ + 1,
              !.staging = [exists |-> FALSE, rows |-> <<>>],
              !.using = <<>>,
              !.pc = IF l.exc = NoError THEN "returned" ELSE "raised"]

LoadClose ==
    /\ load.pc = "finally"
    /\ load' = LoadFinally(load)
    /\ UNCHANGED <<startVars, metaVars,
                   process, now, base_variables, constructed, warehouse, mainPc,
                   current_year, loopYear, calls, mainErr, etl, render, cache, renders>>

-----------------------------------------------------------------------------
(* DataExtractor.etl and the driver main() (utils/base_classes.py, main.py). *)

dashVars == <<render, cache, renders>>

NoEtl ==
    [url |-> <<>>, metadata |-> Metadata(""), df |-> None, phase |-> "none",
     phases |-> <<>>, err |-> NoError, page |-> None, at |-> 0]

\* the error etl raises for a failed phase: raise RuntimeError(...) from err
EtlErrorWithoutCause(stage, err) ==
    [kind |-> "RuntimeError", stage |-> stage, cause |-> NoError]
EtlError(stage, err) == [kind |-> "RuntimeError", stage |-> stage, cause |-> err]

\* what requests.get / raise_for_status / read_html raise
ExtractErrors == {[kind |-> "Timeout"], [kind |-> "HTTPError"], [kind |-> "ValueError"]}

\* the clock passes New Year
Tick ==
    /\ now < MaxYear
    /\ now' = now + 1
    /\ UNCHANGED <<startVars, metaVars,
                   process, base_variables, constructed, warehouse, mainPc,
                   current_year, loopYear, calls, mainErr, etl, load, dashVars>>

\* main(): current_year and start_year are read
MainStart ==
    /\ process = "main"
    /\ mainPc = "start"
    /\ current_year' = now
    /\ loopYear' = base_variables.year
    /\ mainPc' = "loop"
    /\ UNCHANGED <<startVars, metaVars,
                   process, now, base_variables, constructed, warehouse, calls,
                   mainErr, etl, load, dashVars>>

\* for year in range(start_year, current_year + 1): TSAETL(year), then .etl()
MainLoop ==
    /\ mainPc = "loop"
    /\ IF loopYear <= current_year
       THEN /\ etl' = [url |-> Url(loopYear, now),
                       metadata |-> Metadata(base_variables.prefix),
                       df |-> None, phase |-> "extract", phases |-> <<>>,
                       err |-> NoError, page |-> None, at |-> 0]
            /\ calls' = Append(calls, [year |-> loopYear, url |-> etl'.url,
                                       clock |-> now, ended |-> FALSE])
            /\ mainPc' = "etl"
       ELSE /\ mainPc' = "done"
            /\ UNCHANGED <<etl, calls>>
    /\ UNCHANGED <<startVars, metaVars,
                   process, now, base_variables, constructed, warehouse,
                   current_year, loopYear, mainErr, load, dashVars>>

\* etl() raised: main() catches nothing, the error leaves it
Raise(e, stage, err) ==
    /\ etl' = [e EXCEPT !.phase = "raised", !.err = EtlError(stage, err)]
    /\ mainErr' = etl'.err
    /\ mainPc' = "raised"
    /\ calls' = [calls EXCEPT ![Len(calls)].ended = TRUE]

\* TSAETL.extract succeeds: df is the first table of the page
Extract ==
    /\ mainPc = "etl" /\ etl.phase = "extract"
    /\ \E t \in PageTables :
          etl' = [etl EXCEPT !.df = t, !.page = t, !.phases = Append(@, "extract"),
                             !.phase = "transform"]
    /\ UNCHANGED <<startVars, metaVars,
                   process, now, base_variables, constructed, warehouse, mainPc,
                   current_year, loopYear, calls, mainErr, load, dashVars>>

ExtractRaises ==
    /\ mainPc = "etl" /\ etl.phase = "extract"
    /\ \E e \in ExtractErrors :
          Raise([etl EXCEPT !.phases = Append(@, "extract")], "Extraction", e)
    /\ UNCHANGED <<startVars, metaVars,
                   process, now, base_variables, constructed, warehouse,
                   current_year, loopYear, load, dashVars>>

\* TSAETL.transform, then etl() goes on to load
TransformStep ==
    /\ mainPc = "etl" /\ etl.phase = "transform"
    /\ ~TransformRaises(etl.df, now)
    /\ etl' = [etl EXCEPT !.df = Transform(etl.df, now, etl.metadata),
                          !.phases = Append(@, "transform"),
                          !.at = now,
                          !.phase = "load"]
    /\ UNCHANGED <<startVars, metaVars,
                   process, now, base_variables, constructed, warehouse, mainPc,
                   current_year, loopYear, calls, mainErr, load, dashVars>>

TransformStepRaises ==
    /\ mainPc = "etl" /\ etl.phase = "transform"
    /\ TransformRaises(etl.df, now)
    /\ Raise([etl EXCEPT !.phases = Append(@, "transform")], "Transformation",
             TransformError(etl.df, now))
    /\ UNCHANGED <<startVars, metaVars,
                   process, now, base_variables, constructed, warehouse,
                   current_year, loopYear, load, dashVars>>

\* DataExtractor.load: the descriptor of the destination
LoadConf(bv) ==
    SnowflakeConfig(DatabaseName(bv.database, bv.environment), bv.schema, bv.table,
                    <<"TRAVEL_DATE">>)

\* DataExtractor.load calls load_dataframe_to_snowflake(self.df)
LoadCall ==
    /\ mainPc = "etl" /\ etl.phase = "load" /\ load.pc \in {"idle", "returned"}
    /\ "load" \notin Range(etl.phases)
    /\ etl' = [etl EXCEPT !.phases = Append(@, "load"), !.page = None, !.at = 0]
    /\ load' = [IdleLoad EXCEPT
                    !.pc = LoadSteps[1],
                    !.df = etl.df,
                    !.conf = LoadConf(base_variables),
                    !.dest0 = warehouse[LoadConf(base_variables).database].rows,
                    !.prev = IF load.pc = "returned" THEN load.df ELSE None]
    /\ UNCHANGED <<startVars, metaVars,
                   process, now, base_variables, constructed, warehouse, mainPc,
                   current_year, loopYear, calls, mainErr, dashVars>>

\* load returned: etl() returns and main() takes the next year
LoadReturns ==
    /\ mainPc = "etl" /\ etl.phase = "load" /\ "load" \in Range(etl.phases)
    /\ load.pc = "returned"
    /\ etl' = [etl EXCEPT !.phase = "done"]
    /\ calls' = [calls EXCEPT ![Len(calls)].ended = TRUE]
    /\ loopYear' = loopYear + 1
    /\ mainPc' = "loop"
    /\ UNCHANGED <<startVars, metaVars,
                   process, now, base_variables, constructed, warehouse,
                   current_year, mainErr, load, dashVars>>

LoadRaises ==
    /\ mainPc = "etl" /\ etl.phase = "load" /\ "load" \in Range(etl.phases)
    /\ load.pc = "raised"
    /\ Raise(etl, "Upload", load.exc)
    /\ UNCHANGED <<startVars, metaVars,
                   process, now, base_variables, constructed, warehouse,
                   current_year, loopYear, load, dashVars>>

-----------------------------------------------------------------------------
(* The dashboard's cached read (webapp.py) and                             *)
(* SnowflakeConnector.extract_dataframe_from_snowflake.                    *)

etlVars == <<mainPc, current_year, loopYear, calls, mainErr, etl, load>>

\* webapp.main: the descriptor of the table the dashboard reads
DashConf ==
    SnowflakeConfig(DatabaseName(Config.DATABASE, "prod"), Config.SCHEMA, Config.TABLE,
                    <<"TRAVEL_DATE">>)

IdleRender ==
    [pc |-> "idle", key |-> <<>>, ctx |-> "none", closes |-> 0, selected |-> <<>>,
     df |-> None, exc |-> NoError]

\* st.cache_data: the key of a call is made of its arguments as they are when
\* the call is made
CacheKey(connection_params, conf) == <<connection_params, conf>>

\* pd.to_datetime on a stored date: the timestamp of its midnight
ToTimestamp(d) == IF d = NaT THEN NaT ELSE d \o <<0, 0, 0>>

\* a < b on timestamps
RECURSIVE LexLess(_, _)
LexLess(a, b) ==
    IF a = <<>> \/ b = <<>> THEN FALSE
    ELSE Head(a) < Head(b) \/ (Head(a) = Head(b) /\ LexLess(Tail(a), Tail(b)))

\* the order of sort_values: ascending, NaT last
Before(a, b) == a # NaT /\ (b = NaT \/ LexLess(a, b))

\* df.sort_values("TRAVEL_DATE"): rows with equal dates keep their order (the
\* sort of a short column is an insertion sort)
RECURSIVE SortValues(_)
SortValues(rows) ==
    IF rows = <<>> THEN <<>>
    ELSE LET rest == SortValues(Tail(rows))
             x == Head(rows)
             k == Cardinality({i \in 1..Len(rest) :
                                  Before(rest[i]["TRAVEL_DATE"], x["TRAVEL_DATE"])})
         IN SubSeq(rest, 1, k) \o <<x>> \o SubSeq(rest, k + 1, Len(rest))

\* load_data after the read: TRAVEL_DATE to timestamps, sorted by it
Preprocess(df) ==
    Table(df.cols,
          SortValues(MapSeq(df.rows,
                            LAMBDA r : [r EXCEPT !["TRAVEL_DATE"] = ToTimestamp(@)])))

\* connection_params.update({"database": ..., "schema": ...}): connection_params
\* is the very mapping the caller passed, BaseVariables.conn
ConnectionParams(conn, conf) ==
    DictUpdate(conn, [database |-> conf.database, schema |-> conf.schema])

\* cs.fetch_pandas_all(): the rows of the SELECT as an in-memory table
FetchPandasAll(cols, selected) == Table(cols, selected)

\* webapp.main calls load_data(BaseVariables.conn, conf): a cached entry for
\* the arguments is returned, otherwise the function body starts
Render ==
    /\ process = "webapp"
    /\ render.pc = "idle"
    /\ Len(renders) < MaxRenders
    /\ LET key == CacheKey(base_variables.conn, DashConf)
       IN IF \E c \in cache : c.key = key
          THEN /\ renders' = Append(renders,
                      [hit |-> TRUE, raised |-> FALSE, opened |-> 0, closes |-> 0,
                       df |-> (CHOOSE c \in cache : c.key = key).value])
               /\ UNCHANGED render
          ELSE /\ render' = [IdleRender EXCEPT !.pc = "connect", !.key = key]
               /\ UNCHANGED renders
    /\ UNCHANGED <<startVars, metaVars,
                   process, now, base_variables, constructed, warehouse, cache, etlVars>>

\* extract_dataframe_from_snowflake: update the parameters, then connect
ReadConnect ==
    /\ render.pc = "connect"
    /\ base_variables' =
          [base_variables EXCEPT !.conn = ConnectionParams(@, DashConf)]
    /\ \/ render' = [render EXCEPT !.ctx = "open", !.pc = "execute"]
       \/ render' = [render EXCEPT !.exc = [kind |-> "DatabaseError"], !.pc = "raised"]
    /\ UNCHANGED <<startVars, metaVars,
                   process, now, constructed, warehouse, cache, renders, etlVars>>

\* cs.execute("SELECT * FROM table"): raises when the table does not exist
ReadExecute ==
    /\ render.pc = "execute"
    /\ LET db == warehouse[DashConf.database]
       IN \/ /\ db.table
             /\ render' = [render EXCEPT !.selected = db.rows, !.pc = "fetch"]
          \/ render' = [render EXCEPT !.exc = [kind |-> "ProgrammingError"],
                                      !.pc = "finally"]
    /\ UNCHANGED <<startVars, metaVars,
                   process, now, base_variables, constructed, warehouse, cache,
                   renders, etlVars>>

ReadFetch ==
    /\ render.pc = "fetch"
    /\ \/ render' = [render EXCEPT
                        !.df = FetchPandasAll(warehouse[DashConf.database].cols,
                                              render.selected),
                        !.pc = "finally"]
       \/ render' = [render EXCEPT !.exc = [kind |-> "ProgrammingError"],
                                   !.pc = "finally"]
    /\ UNCHANGED <<startVars, metaVars,
                   process, now, base_variables, constructed, warehouse, cache,
                   renders, etlVars>>

\* finally: ctx.close(), then the read returns df or the error propagates
ReadFinally(r) ==
    [r EXCEPT !.ctx = "closed", !.closes = @ + 1,
              !.pc = IF r.exc = NoError THEN "returned" ELSE "raised"]

ReadClose ==
    /\ render.pc = "finally"
    /\ render' = ReadFinally(render)
    /\ UNCHANGED <<startVars, metaVars,
                   process, now, base_variables, constructed, warehouse, cache,
                   renders, etlVars>>

\* load_data returns: the result is stored under the key of the call
LoadDataReturns ==
    /\ render.pc = "returned"
    /\ LET df == Preprocess(render.df)
       IN /\ cache' = cache \cup {[key |-> render.key, value |-> df]}
          /\ renders' = Append(renders,
                 [hit |-> FALSE, raised |-> FALSE, opened |-> 1,
                  closes |-> render.closes, df |-> df, read |-> render.df])
    /\ render' = IdleRender
    /\ UNCHANGED <<startVars, metaVars,
                   process, now, base_variables, constructed, warehouse, etlVars>>

\* load_data raises: nothing is stored
LoadDataRaises ==
    /\ render.pc = "raised"
    /\ renders' = Append(renders,
           [hit |-> FALSE, raised |-> TRUE,
            opened |-> IF render.ctx = "none" THEN 0 ELSE 1,
            closes |-> render.closes, df |-> None])
    /\ render' = IdleRender
    /\ UNCHANGED <<startVars, metaVars,
                   process, now, base_variables, constructed, warehouse, cache, etlVars>>

-----------------------------------------------------------------------------
(* The dashboard's metadata summary: extract_metadata (webapp.py). *)

\* Python's None as a cell of a text column (what a SQL NULL is read as)
PyNone == "<None>"

\* the cells of the metadata columns of a table given to extract_metadata
MetaCells == {"US", "CA", PyNone}

\* str(value) on a cell of a text column
PyStr(v) == IF v = PyNone THEN "None" ELSE v

\* the texts of the cells, as Python orders them (by code point)
TextOrder == <<"CA", "None", "US">>
TextRank(t) == CHOOSE i \in 1..Len(TextOrder) : TextOrder[i] = t

\* the column layouts of the tables given to extract_metadata
MetaLayouts ==
    {<<"TRAVEL_DATE", "VALUE", "COUNTRY", "UNIT">>, <<"COUNTRY", "TRAVEL_DATE", "VALUE">>}

\* one row of such a table
MetaRows(cols) ==
    {[c \in Range(cols) |->
        CASE c = "TRAVEL_DATE" -> ToTimestamp(<<2022, 1, 1>>)
          [] c = "VALUE" -> 100
          [] OTHER -> f[c]] : f \in [Range(cols) \ {"TRAVEL_DATE", "VALUE"} -> MetaCells]}

\* the tables of at most MaxLen rows
MetaTables ==
    UNION {UNION {{Table(cols, rows) : rows \in [1..k -> MetaRows(cols)]} : k \in 0..MaxLen}
              : cols \in MetaLayouts}

\* df[col]: the cells of the column, top to bottom
Column(df, col) == [i \in 1..Len(df.rows) |-> df.rows[i][col]]

\* Series.unique(): the distinct cells in order of first appearance, None
\* being one of them
RECURSIVE Unique(_)
UniqueSorted(s) ==
    CHOOSE q \in SeqsUpTo(Range(s), Cardinality(Range(s))) :
        /\ Range(q) = Range(s)
        /\ \A i, j \in 1..Len(q) : i < j => TextRank(PyStr(q[i])) < TextRank(PyStr(q[j]))
Unique(s) ==
    IF s = <<>> THEN <<>>
    ELSE LET seen == Unique(SubSeq(s, 1, Len(s) - 1))
         IN IF Last(s) \in Range(seen) THEN seen ELSE Append(seen, Last(s))

\* Series.nunique(): the number of distinct cells, None left out (dropna=True)
NUnique(s) == Cardinality(Range(s) \ {PyNone})

\* ", ".join(texts)
RECURSIVE Join(_)
Join(texts) ==
    IF texts = <<>> THEN ""
    ELSE IF Len(texts) = 1 THEN texts[1]
         ELSE texts[1] \o ", " \o Join(Tail(texts))

\* extract_metadata(df): one row per column other than TRAVEL_DATE and VALUE
ExtractMetadata(df) ==
    LET metadata_columns ==
            SelectSeq(df.cols, LAMBDA col : col \notin {"TRAVEL_DATE", "VALUE"})
        Value(col) ==
            IF NUnique(Column(df, col)) = 1
            THEN Unique(Column(df, col))[1]
            ELSE Join(MapSeq(Unique(Column(df, col)), PyStr))
    IN Table(<<"Fields", "Metadata">>,
             MapSeq(metadata_columns,
                    LAMBDA col : [Fields |-> col, Metadata |-> Value(col)]))

\* webapp.main: meta_df = extract_metadata(df)
ExtractMetadataCall ==
    /\ process = "webapp"
    /\ dash_df # None
    /\ meta_df = None
    /\ meta_df' = ExtractMetadata(dash_df)
    /\ UNCHANGED <<startVars, dash_df, process, now, base_variables, constructed,
                   warehouse, etlVars, dashVars>>

-----------------------------------------------------------------------------
(* The start of the process, followed by the day: parse_args                *)
(* (utils/__init__.py) and the first lines of main() (main.py).             *)

\* datetime's calendar: the proleptic Gregorian calendar, days counted from
\* 0001-01-01 as day 1
IsLeap(y) == y % 4 = 0 /\ (y % 100 # 0 \/ y % 400 = 0)

DaysInMonth(y, m) ==
    IF m = 2 THEN (IF IsLeap(y) THEN 29 ELSE 28)
    ELSE IF m \in {4, 6, 9, 11} THEN 30 ELSE 31

DaysBeforeYear(y) == (y - 1) * 365 + (y - 1) \div 4 - (y - 1) \div 100 + (y - 1) \div 400

RECURSIVE DaysBeforeMonth(_, _)
DaysBeforeMonth(y, m) ==
    IF m = 1 THEN 0 ELSE DaysBeforeMonth(y, m - 1) + DaysInMonth(y, m - 1)

ToOrdinal(d) == DaysBeforeYear(d[1]) + DaysBeforeMonth(d[1], d[2]) + d[3]

FromOrdinal(n) ==
    LET y == CHOOSE yy \in (FirstYear - 1)..(MaxStartYear + 1) :
                 DaysBeforeYear(yy) < n /\ n <= DaysBeforeYear(yy + 1)
        k == n - DaysBeforeYear(y)
        m == CHOOSE mm \in 1..12 :
                 DaysBeforeMonth(y, mm) < k /\ k <= DaysBeforeMonth(y, mm) + DaysInMonth(y, mm)
    IN <<y, m, k - DaysBeforeMonth(y, m)>>

\* a datetime minus timedelta(days=days), the time of day left out
MinusDays(d, days) == FromOrdinal(ToOrdinal(d) - days)

\* int(text) on the text of a year
ParseInt(text) == CHOOSE y \in FirstYear..(FirstYear + Len(YearNames) - 1) : Str(y) = text

\* parse_args: default=int((datetime.now() - timedelta(days=365)).strftime("%Y"))
StartYearDefault(d) == ParseInt(Str(MinusDays(d, 365)[1]))

\* the days on which the process can start
StartDates ==
    {dt \in ((FirstYear + 1)..MaxStartYear) \X (1..12) \X (1..31) :
        dt[3] <= DaysInMonth(dt[1], dt[2])}

\* what the command line gives for --start_year: nothing, or one integer
StartYearArgs == {<<>>, <<FirstYear - 1>>, <<MaxStartYear>>}

NoArgs ==
    [pc |-> "none", argv |-> <<>>, choices |-> {}, default |-> 0, at |-> NaT,
     midnights |-> 0]

\* the run context before parse_args has returned
Unparsed == BaseVariables("uat", 0)

\* midnight passes
DayTick ==
    /\ parsed_args.pc \in {"choices", "default", "parse", "parsed"}
    /\ mainPc \in {"import", "start"}
    /\ parsed_args.midnights < MaxMidnights
    /\ today # <<MaxStartYear, 12, 31>>
    /\ today' = FromOrdinal(ToOrdinal(today) + 1)
    /\ now' = today'[1]
    /\ parsed_args' = [parsed_args EXCEPT !.midnights = @ + 1]
    /\ UNCHANGED <<metaVars, process, base_variables, constructed, warehouse, etlVars,
                   dashVars>>

\* parse_args: choices=list(range(2019, datetime.now().year + 1))
StartYearChoicesRead ==
    /\ parsed_args.pc = "choices"
    /\ parsed_args' = [parsed_args EXCEPT !.choices = StartYearChoices(now),
                                          !.pc = "default"]
    /\ UNCHANGED <<metaVars, today, process, now, base_variables, constructed,
                   warehouse, etlVars, dashVars>>

\* parse_args: the default of --start_year is computed
StartYearDefaultRead ==
    /\ parsed_args.pc = "default"
    /\ parsed_args' = [parsed_args EXCEPT !.default = StartYearDefault(today),
                                          !.at = today, !.pc = "parse"]
    /\ UNCHANGED <<metaVars, today, process, now, base_variables, constructed,
                   warehouse, etlVars, dashVars>>

\* parser.parse_args(): a given --start_year must be one of the choices (the
\* parser exits otherwise), an absent one takes the default as it is; the
\* class body of BaseVariables then reads the result
ParseArgs ==
    /\ parsed_args.pc = "parse"
    /\ IF parsed_args.argv = <<>> \/ parsed_args.argv[1] \in parsed_args.choices
       THEN /\ \E environment \in Environments :
                  base_variables' =
                      BaseVariables(environment,
                                    IF parsed_args.argv = <<>>
                                    THEN parsed_args.default
                                    ELSE parsed_args.argv[1])
            /\ constructed' = base_variables'
            /\ mainPc' = "start"
            /\ parsed_args' = [parsed_args EXCEPT !.pc = "parsed"]
       ELSE /\ parsed_args' = [parsed_args EXCEPT !.pc = "exit"]
            /\ UNCHANGED <<base_variables, constructed, mainPc>>
    /\ UNCHANGED <<metaVars, today, process, now, warehouse, current_year, loopYear,
                   calls, mainErr, etl, load, dashVars>>

-----------------------------------------------------------------------------
(* The process. *)

\* the tables a pipeline can hand to load
LoadedTables(prefix) ==
    {Transform(ty[1], ty[2], Metadata(prefix)) :
        ty \in {p \in PageTables \X Years : ~TransformRaises(p[1], p[2])}}

\* the destination as one load into a new database leaves it
LeftByLoad(df) ==
    [database |-> TRUE, schema |-> TRUE, table |-> TRUE, cols |-> df.cols,
     rows |-> Merge(<<>>, df.rows, <<"TRAVEL_DATE">>, df.cols)]

Init ==
    /\ process \in {"main", "webapp"}
    /\ now \in Years
    /\ \E environment \in Environments, start_year \in StartYearChoices(now) :
          base_variables = BaseVariables(environment, start_year)
    /\ constructed = base_variables
    /\ IF process = "main"
       THEN warehouse = [d \in Databases |-> EmptyDatabase]
       ELSE \E w \in {EmptyDatabase} \cup {LeftByLoad(df) : df \in LoadedTables("")} :
               warehouse = [d \in Databases |->
                               IF d = DashConf.database THEN w ELSE EmptyDatabase]
    /\ mainPc = "start"
    /\ current_year = now
    /\ loopYear = base_variables.year
    /\ calls = <<>>
    /\ mainErr = NoError
    /\ etl = NoEtl
    /\ load = IdleLoad
    /\ render = IdleRender
    /\ cache = {}
    /\ renders = <<>>
    /\ today = NaT
    /\ parsed_args = NoArgs
    /\ dash_df = None
    /\ meta_df = None

Next ==
    \/ Tick
    \/ MainStart \/ MainLoop
    \/ Extract \/ ExtractRaises
    \/ TransformStep \/ TransformStepRaises
    \/ LoadCall \/ LoadStep \/ LoadStepRaises \/ LoadWriteUnsuccessful \/ LoadClose
    \/ LoadReturns \/ LoadRaises
    \/ Render \/ ReadConnect \/ ReadExecute \/ ReadFetch \/ ReadClose
    \/ LoadDataReturns \/ LoadDataRaises

Spec == Init /\ [][Next]_vars

\* the start of the driver, by the day: from the import of utils to the first
\* lines of main()
StartInit ==
    /\ process = "main"
    /\ today \in StartDates
    /\ now = today[1]
    /\ \E argv \in StartYearArgs :
          parsed_args = [NoArgs EXCEPT !.pc = "choices", !.argv = argv]
    /\ base_variables = Unparsed
    /\ constructed = Unparsed
    /\ warehouse = [d \in Databases |-> EmptyDatabase]
    /\ mainPc = "import"
    /\ current_year = 0
    /\ loopYear = 0
    /\ calls = <<>>
    /\ mainErr = NoError
    /\ etl = NoEtl
    /\ load = IdleLoad
    /\ render = IdleRender
    /\ cache = {}
    /\ renders = <<>>
    /\ dash_df = None
    /\ meta_df = None

StartNext ==
    \/ DayTick
    \/ StartYearChoicesRead \/ StartYearDefaultRead \/ ParseArgs
    \/ MainStart

StartSpec == StartInit /\ [][StartNext]_vars

\* the dashboard with a table in hand, before the metadata summary is made
MetaInit ==
    /\ process = "webapp"
    /\ dash_df \in MetaTables
    /\ meta_df = None
    /\ now = FirstYear
    /\ \E environment \in Environments :
          base_variables = BaseVariables(environment, FirstYear)
    /\ constructed = base_variables
    /\ warehouse = [d \in Databases |-> EmptyDatabase]
    /\ mainPc = "start"
    /\ current_year = now
    /\ loopYear = base_variables.year
    /\ calls = <<>>
    /\ mainErr = NoError
    /\ etl = NoEtl
    /\ load = IdleLoad
    /\ render = IdleRender
    /\ cache = {}
    /\ renders = <<>>
    /\ today = NaT
    /\ parsed_args = NoArgs

MetaNext == ExtractMetadataCall

MetaSpec == MetaInit /\ [][MetaNext]_vars

-----------------------------------------------------------------------------
(* Claims about the load (C1, C2, C3). *)

\* the rows of the table the pipeline of this process loads into
Destination == warehouse[LoadConf(base_variables).database].rows

Count(rows, r) == Cardinality({i \in 1..Len(rows) : rows[i] = r})

\* C1: starting from an empty destination table, after any sequence of loads
\* keyed on TRAVEL_DATE the destination holds at most one row per TRAVEL_DATE
\* value (rows without a date are not counted), whatever the loaded tables hold.
C1_OneRowPerTravelDate ==
    process = "main" =>
        \A i, j \in 1..Len(Destination) :
            (i # j /\ Destination[i]["TRAVEL_DATE"] # NaT)
                => Destination[i]["TRAVEL_DATE"] # Destination[j]["TRAVEL_DATE"]

\* C2: the load is idempotent: when a load of the table the previous load
\* loaded returns, the destination holds exactly the rows it held when the
\* second load began.
C2_LoadIdempotent ==
    (load.pc = "returned" /\ load.prev = load.df) => Destination = load.dest0

\* a staged row and a destination row match: their TRAVEL_DATE values are
\* equal as the warehouse compares them (a missing date equals nothing)
C3_Matches(t, s) ==
    /\ t["TRAVEL_DATE"] # NaT
    /\ s["TRAVEL_DATE"] # NaT
    /\ t["TRAVEL_DATE"] = s["TRAVEL_DATE"]

\* C3: the load is insert-only: the rows the destination held before the load
\* are still its first rows, unchanged; once the merge has run, the rows added
\* are exactly the staged rows that match no row the destination held, and a
\* staged row that matches one is not added (a revised VALUE is dropped);
\* before the merge has run nothing is added.
C3_InsertOnly ==
    load.pc # "idle" =>
        LET d0 == load.dest0
            added == SubSeq(Destination, Len(d0) + 1, Len(Destination))
            matched(s) == \E i \in 1..Len(d0) : C3_Matches(d0[i], s)
        IN /\ Len(Destination) >= Len(d0)
           /\ SubSeq(Destination, 1, Len(d0)) = d0
           /\ IF "merge" \in Range(load.steps)
              THEN /\ Range(added) \subseteq Range(load.df.rows)
                   /\ \A s \in Range(load.df.rows) :
                         Count(added, s) = IF matched(s) THEN 0
                                           ELSE Count(load.df.rows, s)
              ELSE added = <<>>

\* C3 witness: a load returned that dropped a staged row carrying a revised
\* VALUE for a date already loaded, and added another staged row.
C3_Witness ==
    /\ load.pc = "returned"
    /\ Len(Destination) > Len(load.dest0)
    /\ \E i \in 1..Len(load.dest0), j \in 1..Len(load.df.rows) :
          /\ C3_Matches(load.dest0[i], load.df.rows[j])
          /\ load.dest0[i]["VALUE"] # load.df.rows[j]["VALUE"]
          /\ load.df.rows[j] \notin Range(Destination)

-----------------------------------------------------------------------------
(* Claims about sessions and the steps of a load (C4, C9). *)

\* C4: a session opened by a load or by a read is closed exactly once before
\* the call returns or raises, on every exit path, and is closed at no other
\* time; a call whose connect raised opened none; the read returns exactly the
\* rows its SELECT * fetched.
C4_SessionsClosedOnce ==
    /\ load.ctx = "open" => load.pc \in (Range(LoadSteps) \ {"connect"}) \cup {"finally"}
    /\ load.pc \in Range(LoadSteps) \cup {"finally"} => load.closes = 0
    /\ load.pc \in {"returned", "raised"} =>
          /\ load.ctx = IF "connect" \in Range(load.steps) THEN "closed" ELSE "none"
          /\ load.closes = IF "connect" \in Range(load.steps) THEN 1 ELSE 0
    /\ load.pc = "returned" => load.ctx = "closed"
    /\ render.ctx = "open" => render.pc \in {"execute", "fetch", "finally"}
    /\ render.pc \in {"connect", "execute", "fetch", "finally"} => render.closes = 0
    /\ render.pc \in {"returned", "raised"} =>
          /\ render.ctx \in {"closed", "none"}
          /\ render.closes = IF render.ctx = "closed" THEN 1 ELSE 0
          /\ render.ctx = "none" => render.exc = [kind |-> "DatabaseError"]
    /\ render.pc = "returned" =>
          /\ render.ctx = "closed"
          /\ render.df.rows = render.selected
          /\ render.df.rows = warehouse[DashConf.database].rows
    /\ \A i \in 1..Len(renders) : renders[i].closes = renders[i].opened

\* C4 witness: a load whose commit raised has ended with its session closed
\* once.
C4_Witness ==
    /\ load.pc = "raised"
    /\ load.exc = [kind |-> "ProgrammingError", at |-> "commit"]
    /\ load.ctx = "closed"
    /\ load.closes = 1

C9_Order ==
    <<"connect", "create_database", "use_database", "create_schema", "use_schema",
      "create_table", "create_staging", "write_pandas", "merge", "commit">>

\* C9: the steps of one load run in the order create database, use database,
\* create schema, use schema, create table, create staging table, bulk write,
\* merge, commit; the merge runs only after a bulk write that reported
\* success; when the bulk write reports failure the load raises the
\* staging-write error, with no merge, no commit and the destination unchanged.
C9_LoadStepsInOrder ==
    load.pc # "idle" =>
        /\ Len(load.steps) <= Len(C9_Order)
        /\ \A i \in 1..Len(load.steps) : load.steps[i] = C9_Order[i]
        /\ "merge" \in Range(load.steps) => load.success = "true"
        /\ load.pc = "returned" => load.steps = C9_Order
        /\ load.success = "false" =>
              /\ load.pc \in {"finally", "raised"}
              /\ load.exc = [kind |-> "RuntimeError",
                             at |-> "Failed to write DataFrame to the staging table."]
              /\ "merge" \notin Range(load.steps)
              /\ "commit" \notin Range(load.steps)
              /\ Destination = load.dest0

\* C9 witness: a load into a destination that holds rows has raised after its
\* bulk write reported failure.
C9_Witness ==
    /\ load.pc = "raised"
    /\ load.success = "false"
    /\ Len(load.dest0) > 0
    /\ Len(load.df.rows) > 0

-----------------------------------------------------------------------------
(* Claims about etl and the driver (C5, C6, C10). *)

C5_Phases == <<"extract", "transform", "load">>
C5_Stages == <<"Extraction", "Transformation", "Upload">>

\* C5: etl runs extract, transform, load, each at most once and in that order;
\* when a phase raises, etl raises an error attributed to that phase with the
\* original error as its cause, and no later phase is run.
C5_EtlPhasesAndErrors ==
    etl.phase # "none" =>
        /\ Len(etl.phases) <= Len(C5_Phases)
        /\ \A i \in 1..Len(etl.phases) : etl.phases[i] = C5_Phases[i]
        /\ etl.phase = "done" => etl.phases = C5_Phases /\ etl.err = NoError
        /\ etl.phase = "raised" =>
              /\ Len(etl.phases) >= 1
              /\ etl.err.kind = "RuntimeError"
              /\ etl.err.stage = C5_Stages[Len(etl.phases)]
              /\ etl.err.cause # NoError
              /\ etl.err.stage = "Extraction" => etl.err.cause \in ExtractErrors
              /\ etl.err.stage = "Transformation" =>
                    etl.err.cause \in {[kind |-> "KeyError"], [kind |-> "ValueError"]}
              /\ etl.err.stage = "Upload" =>
                    load.pc = "raised" /\ etl.err.cause = load.exc
              /\ mainErr = etl.err

\* C5 witness: a transform that met an unparsable date has made etl raise.
C5_Witness ==
    /\ etl.phase = "raised"
    /\ etl.err.stage = "Transformation"
    /\ etl.err.cause = [kind |-> "ValueError"]
    /\ etl.phases = <<"extract", "transform">>

\* C6: main runs etl once for each year from start_year to its current_year,
\* in ascending order and one at a time; a pipeline built in the calendar year
\* it is for fetches the bare url, any other the url suffixed with its year;
\* when an etl raises no later year is built and the error leaves main.
C6_DriverYears ==
    /\ \A i \in 1..Len(calls) :
          /\ calls[i].year = base_variables.year + i - 1
          /\ calls[i].year <= current_year
          /\ calls[i].url = IF calls[i].year = calls[i].clock
                            THEN <<SOURCE>>
                            ELSE <<SOURCE, Str(calls[i].year)>>
          /\ i < Len(calls) => calls[i].ended
    /\ mainPc = "etl" => ~Last(calls).ended /\ Last(calls).year = loopYear
    /\ mainPc = "done" =>
          /\ Len(calls) = current_year - base_variables.year + 1
          /\ \A i \in 1..Len(calls) : calls[i].ended
          /\ mainErr = NoError
    /\ mainPc = "raised" =>
          /\ mainErr # NoError
          /\ mainErr = etl.err
          /\ Last(calls).ended
          /\ Last(calls).year = loopYear

\* C6 witness: a run over 2019 and 2020 has finished, the first year fetched
\* from the suffixed url and the current year from the bare one.
C6_Witness ==
    /\ mainPc = "done"
    /\ Len(calls) = 2
    /\ calls[1].url = <<SOURCE, "2019">>
    /\ calls[2].url = <<SOURCE>>

C10_Columns ==
    <<"TRAVEL_DATE", "VALUE", "COUNTRY", "FREQUENCY", "SERIES_ID", "SOURCE", "UNIT">>

-----------------------------------------------------------------------------
(* Claims about the dashboard (C7, C8). *)

\* C7: the run context is never mutated: every field of BaseVariables, the
\* keys and values of its connection parameters included, equals its value at
\* construction.
C7_RunContextNeverMutated == base_variables = constructed

\* C8: with unchanged secrets and table descriptor, the renders of one process
\* complete the warehouse read at most once: every render after it is served
\* from the cache.
C8_ReadAtMostOnce ==
    Cardinality({i \in 1..Len(renders) : ~renders[i].hit /\ ~renders[i].raised}) <= 1

-----------------------------------------------------------------------------
(* Claim about the default start year (C11). *)

\* C11: on whatever day from 2020 on the process starts, the default the
\* parser holds for --start_year is the calendar year of that moment minus 1
\* and is one of the parser's choices, and when main() has read start_year
\* (the default, nothing being given) and current_year, start_year is at most
\* current_year, so that the range of years is not empty.
C11_DefaultIsLastYear ==
    /\ parsed_args.pc \in {"parse", "parsed", "exit"} =>
          /\ parsed_args.default = parsed_args.at[1] - 1
          /\ parsed_args.default \in parsed_args.choices
    /\ (parsed_args.pc = "parsed" /\ parsed_args.argv = <<>> /\ mainPc = "loop") =>
          loopYear <= current_year

\* C11, the part that holds: the default is one of the parser's choices
C11_DefaultAmongChoices ==
    parsed_args.pc \in {"parse", "parsed", "exit"} =>
        parsed_args.default \in parsed_args.choices

\* C11, the part that holds: with the default, main()'s range of years is not
\* empty
C11_RangeNotEmpty ==
    (parsed_args.pc = "parsed" /\ parsed_args.argv = <<>> /\ mainPc = "loop") =>
        loopYear <= current_year

\* C11, what the code computes: the default is last year, except on the 31st
\* of December of a leap year, when 365 days earlier is the 1st of January of
\* the same year
C11_LastYearUnlessLeapYearsEnd ==
    parsed_args.pc \in {"parse", "parsed", "exit"} =>
        parsed_args.default =
            IF IsLeap(parsed_args.at[1]) /\ parsed_args.at[2] = 12 /\ parsed_args.at[3] = 31
            THEN parsed_args.at[1]
            ELSE parsed_args.at[1] - 1

-----------------------------------------------------------------------------
(* Claim about the metadata summary (C12). *)

\* the columns the summary is about
C12_Fields == SelectSeq(dash_df.cols, LAMBDA c : c \notin {"TRAVEL_DATE", "VALUE"})

\* the distinct cells of a column, by the order of their texts
C12_Sorted(s) ==
    CHOOSE q \in SeqsUpTo(Range(s), Len(s)) :
        /\ Range(q) = Range(s)
        /\ \A i, j \in 1..Len(q) : i < j => TextRank(PyStr(q[i])) < TextRank(PyStr(q[j]))

\* the row in which a cell of the column is first seen
C12_First(s, v) == CHOOSE i \in 1..Len(s) : s[i] = v /\ \A j \in 1..(i - 1) : s[j] # v

\* the distinct cells of a column, by the row they are first seen in
C12_FirstSeen(s) ==
    CHOOSE q \in SeqsUpTo(Range(s), Len(s)) :
        /\ Range(q) = Range(s)
        /\ \A i, j \in 1..Len(q) : i < j => C12_First(s, q[i]) < C12_First(s, q[j])

\* C12: for every table given to extract_metadata, the summary has one row
\* per column other than TRAVEL_DATE and VALUE; a column holding the same
\* value on all rows is reported as that value, any other column as its
\* distinct values, each once, sorted, joined with ", ".
C12_SortedSummary ==
    meta_df # None =>
        /\ MapSeq(meta_df.rows, LAMBDA r : r.Fields) = C12_Fields
        /\ \A i \in 1..Len(meta_df.rows) :
              LET s == Column(dash_df, C12_Fields[i])
              IN meta_df.rows[i].Metadata =
                    IF s # <<>> /\ \A j \in 1..Len(s) : s[j] = s[1]
                    THEN s[1]
                    ELSE Join(MapSeq(C12_Sorted(s), PyStr))

\* C12 as amended: for every table given to extract_metadata, the summary has
\* one row per column other than TRAVEL_DATE and VALUE; a column with exactly
\* one distinct value that is not a missing one is reported as the value of
\* its first row, any other column as the texts of its distinct values (a
\* missing value being one of them), each once, in the order in which they
\* first appear, joined with ", ".
C12_FirstSeenSummary ==
    meta_df # None =>
        /\ MapSeq(meta_df.rows, LAMBDA r : r.Fields) = C12_Fields
        /\ \A i \in 1..Len(meta_df.rows) :
              LET s == Column(dash_df, C12_Fields[i])
              IN meta_df.rows[i].Metadata =
                    IF Cardinality({v \in Range(s) : v # PyNone}) = 1
                    THEN s[1]
                    ELSE Join(MapSeq(C12_FirstSeen(s), PyStr))

\* a summary is made of a table with a constant column and a column whose
\* values first appear out of their sorted order
C12_Witness ==
    /\ meta_df # None
    /\ \E i, j \in 1..Len(meta_df.rows) :
          /\ Column(dash_df, C12_Fields[i]) = <<"US", "CA">>
          /\ meta_df.rows[i].Metadata = "US, CA"
          /\ Column(dash_df, C12_Fields[j]) = <<"CA", "CA">>
          /\ meta_df.rows[j].Metadata = "CA"

====
